---- MODULE Spec2Model ----
(***************************************************************************)
(* Page Objects (LoginPage, InventoryPage, CartPage), the custom commands  *)
(* and the two test specs of the Cypress tutorial suite, run against the   *)
(* shop application they drive.                                            *)
(*                                                                         *)
(* A session state is a record s:                                          *)
(*   ok        FALSE once a command of the current chain has failed; every *)
(*             later command of the chain is then skipped (Cypress aborts  *)
(*             the command queue of the test on the first failure)         *)
(*   page      the screen the browser shows                                *)
(*   auth      the session cookie is set                                   *)
(*   cart      the cart contents, in the order the products were added     *)
(*   username, password   contents of the two login fields                 *)
(*   error     text of the login error banner, <<>> when there is none     *)
(*   menuOpen  the side menu is open                                       *)
(*   sort      the option selected in the inventory's sort dropdown        *)
(*   acts      interactions with the page made since the call began        *)
(* The runner keeps the running scenario, the position pc in its script,   *)
(* its status, the action calls hist it has made, its last call, and in    *)
(* prev whether the scenario before it left a filled cart behind,          *)
(* interactions the number of page interactions its last call made and     *)
(* returned the object that call returned.                                 *)
(* Texts are sequences of words; "contain"/"include" is contiguous         *)
(* sub-sequence.                                                           *)
(***************************************************************************)
EXTENDS Integers, Sequences, FiniteSets, TLC

VARIABLES page, auth, cart, username, password, error, menuOpen, sort,
          scenario, pc, status, hist, lastCall, prev, interactions, returned

vars == <<page, auth, cart, username, password, error, menuOpen, sort,
          scenario, pc, status, hist, lastCall, prev, interactions, returned>>

(* ---------------------------- bounds ----------------------------------- *)

\* number of action calls of a generated (free) scenario
MaxSteps == 3
\* number of custom commands a generated scenario calls
MaxCommands == 1
\* length of the product list given to setupCartWithProducts
MaxList == 2

(* ---------------------------- texts ------------------------------------ *)

Range(f) == {f[i] : i \in DOMAIN f}

\* chai 'contain' / 'include' on a text: sub occurs in text
Contains(text, sub) ==
    \E i \in 1..(Len(text) + 1) :
        /\ i + Len(sub) - 1 <= Len(text)
        /\ SubSeq(text, i, i + Len(sub) - 1) = sub

Digit == <<"0", "1", "2", "3", "4", "5", "6", "7", "8", "9">>

\* count.toString(): the decimal digits of a natural number
RECURSIVE toString(_)
toString(n) ==
    IF n < 10 THEN <<Digit[n + 1]>>
    ELSE toString(n \div 10) \o <<Digit[(n % 10) + 1]>>

(* ---------------------------- test data -------------------------------- *)

\* the product ids the specs use; the inventory lists six products
NamedProducts == {"sauce-labs-backpack", "sauce-labs-bike-light",
                  "sauce-labs-bolt-t-shirt"}
Catalog == NamedProducts \cup {"sauce-labs-fleece-jacket", "sauce-labs-onesie",
                               "test.allthethings()-t-shirt-(red)"}

\* the name the shop displays for a product id
NameOf(productId) ==
    CASE productId = "sauce-labs-backpack"     -> <<"Sauce", "Labs", "Backpack">>
      [] productId = "sauce-labs-bike-light"   -> <<"Sauce", "Labs", "Bike", "Light">>
      [] productId = "sauce-labs-bolt-t-shirt" -> <<"Sauce", "Labs", "Bolt", "T-Shirt">>
      [] productId = "sauce-labs-fleece-jacket" -> <<"Sauce", "Labs", "Fleece", "Jacket">>
      [] productId = "sauce-labs-onesie"       -> <<"Sauce", "Labs", "Onesie">>
      [] OTHER -> <<"Test.allTheThings()", "T-Shirt", "(Red)">>

\* arguments the generated scenarios draw from
\* (a generated scenario uses two of the named products)
AllProductIds == NamedProducts \cup {"no-such-product"}
FreeProductIds == {"sauce-labs-backpack", "sauce-labs-bike-light", "no-such-product"}
NamesOf(ids) == {NameOf(p) : p \in ids \cap Catalog} \cup {<<"No", "Such", "Product">>}
Usernames == {"standard_user", "invalid_user", ""}
Passwords == {"secret_sauce", "wrong_password", ""}

\* the number of products the inventory is asserted to list
ProductCount == 6

ValidAccount(u, p) == u = "standard_user" /\ p = "secret_sauce"

ErrUsernameRequired == <<"Epic", "sadface:", "Username", "is", "required">>
ErrPasswordRequired == <<"Epic", "sadface:", "Password", "is", "required">>
ErrNoMatch == <<"Epic", "sadface:", "Username", "and", "password", "do", "not",
                "match", "any", "user", "in", "this", "service">>

MsgNoMatch == <<"Username", "and", "password", "do", "not", "match">>
MsgUsernameRequired == <<"Username", "is", "required">>
NoMessage == <<>>

ShopPages == {"inventory", "inventory-item", "cart", "checkout-step-one"}

\* the values of the sort dropdown
SortOptions == {"az", "za", "lohi", "hilo"}

\* the number the shop gives a product in '#item_<n>_title_link'
ItemNumber(productId) ==
    CASE productId = "sauce-labs-backpack"     -> "4"
      [] productId = "sauce-labs-bike-light"   -> "0"
      [] productId = "sauce-labs-bolt-t-shirt" -> "1"
      [] productId = "sauce-labs-fleece-jacket" -> "5"
      [] productId = "sauce-labs-onesie"       -> "2"
      [] OTHER -> "3"

\* cy.url()
url(s) ==
    CASE s.page = "blank"     -> <<"about:blank">>
      [] s.page = "login"     -> <<"https://www.", "saucedemo.com", "/">>
      [] s.page = "inventory" -> <<"https://www.", "saucedemo.com", "/inventory", ".html">>
      [] s.page = "inventory-item" ->
             <<"https://www.", "saucedemo.com", "/inventory", "-item", ".html">>
      [] s.page = "cart"      -> <<"https://www.", "saucedemo.com", "/cart", ".html">>
      [] OTHER -> <<"https://www.", "saucedemo.com", "/checkout-step-one", ".html">>

(* ---------------------------- engine primitives ------------------------ *)

Fail(s) == [s EXCEPT !.ok = FALSE]

\* one more interaction with the page (.click(), .type(), .clear(), .select())
Acted(s) == [s EXCEPT !.acts = @ + 1]

\* .click() / .type() / .clear() need exactly one element, visible and not covered
Actionable(els) == Cardinality(els) = 1 /\ \A e \in els : e.visible

\* .should('be.visible')
BeVisible(els) == els # {} /\ \A e \in els : e.visible
\* .should('contain', text): the elements exist and one of them contains the text
ShouldContain(els, text) == els # {} /\ \E e \in els : Contains(e.text, text)
\* .should('not.contain', text): the elements exist and none contains the text
ShouldNotContain(els, text) == els # {} /\ \A e \in els : ~Contains(e.text, text)
\* .should('exist') / .should('not.exist')
ShouldExist(els) == els # {}
ShouldNotExist(els) == els = {}
\* .should('have.length', n)
HaveLength(els, n) == Cardinality(els) = n

\* an assertion leaves the page alone and fails the chain when it does not hold
Verify(s, holds) == IF ~s.ok THEN s ELSE IF holds THEN s ELSE Fail(s)

El(sel, text, visible) == [sel |-> sel, text |-> text, visible |-> visible]

(* ---------------------------- LoginPage -------------------------------- *)

usernameField(s) == IF s.page = "login" THEN {El("#user-name", <<s.username>>, TRUE)} ELSE {}
passwordField(s) == IF s.page = "login" THEN {El("#password", <<s.password>>, TRUE)} ELSE {}
loginButton(s) == IF s.page = "login" THEN {El("#login-button", <<"Login">>, TRUE)} ELSE {}
errorMessage(s) ==
    IF s.page = "login" /\ s.error # <<>> THEN {El("error", s.error, TRUE)} ELSE {}
errorButton(s) ==
    IF s.page = "login" /\ s.error # <<>> THEN {El(".error-button", <<>>, TRUE)} ELSE {}

\* cy.visit('https://www.saucedemo.com/'): the login form, freshly rendered;
\* cookies and local storage (session, cart) are untouched
visit(s) ==
    IF ~s.ok THEN s
    ELSE [s EXCEPT !.page = "login", !.sort = "az", !.username = "", !.password = "",
                   !.error = <<>>, !.menuOpen = FALSE]

\* .clear().type(username): cy.type() rejects an empty string
\* (variant: .type(username) without .clear())
fillUsername_noClear(s, u) ==
    IF ~s.ok THEN s
    ELSE IF ~Actionable(usernameField(s)) \/ u = "" THEN Fail(s)
    ELSE [Acted(s) EXCEPT !.username = u]

fillUsername(s, u) ==
    IF ~s.ok THEN s
    ELSE IF ~Actionable(usernameField(s)) THEN Fail(s)
    ELSE LET cleared == [Acted(s) EXCEPT !.username = ""]
         IN  IF u = "" THEN Fail(cleared)
             ELSE [Acted(cleared) EXCEPT !.username = u]

\* (variant: the password is typed into the username field)
fillPassword_wrongField(s, p) ==
    IF ~s.ok THEN s
    ELSE IF ~Actionable(usernameField(s)) THEN Fail(s)
    ELSE LET cleared == [Acted(s) EXCEPT !.username = ""]
         IN  IF p = "" THEN Fail(cleared)
             ELSE [Acted(cleared) EXCEPT !.username = p]

fillPassword(s, p) ==
    IF ~s.ok THEN s
    ELSE IF ~Actionable(passwordField(s)) THEN Fail(s)
    ELSE LET cleared == [Acted(s) EXCEPT !.password = ""]
         IN  IF p = "" THEN Fail(cleared)
             ELSE [Acted(cleared) EXCEPT !.password = p]

\* click on the login button and the application's answer to the submitted form
clickLogin(s) ==
    IF ~s.ok THEN s
    ELSE IF ~Actionable(loginButton(s)) THEN Fail(s)
    ELSE IF s.username = "" THEN [Acted(s) EXCEPT !.error = ErrUsernameRequired]
    ELSE IF s.password = "" THEN [Acted(s) EXCEPT !.error = ErrPasswordRequired]
    ELSE IF ValidAccount(s.username, s.password)
         THEN [Acted(s) EXCEPT !.page = "inventory", !.sort = "az", !.auth = TRUE, !.error = <<>>,
                        !.username = "", !.password = "", !.menuOpen = FALSE]
    ELSE [Acted(s) EXCEPT !.error = ErrNoMatch]

clearError(s) ==
    IF ~s.ok THEN s
    ELSE IF ~Actionable(errorButton(s)) THEN Fail(s)
    ELSE [Acted(s) EXCEPT !.error = <<>>]

\* (variant: the username is typed into both fields)
login_sameValue(s, u, p) == clickLogin(fillPassword(fillUsername(s, u), u))

login(s, u, p) == clickLogin(fillPassword(fillUsername(s, u), p))

shouldShowError(s, message) ==
    LET s1 == Verify(s, BeVisible(errorMessage(s)))
    IN  IF message # NoMessage
        THEN Verify(s1, ShouldContain(errorMessage(s1), message))
        ELSE s1

shouldRedirectToInventory(s) == Verify(s, Contains(url(s), <<"/inventory">>))

shouldBeOnLoginPage(s) ==
    LET s1 == Verify(s, Contains(url(s), <<"saucedemo.com">>))
    IN  Verify(s1, BeVisible(loginButton(s1)))

(* ---------------------------- InventoryPage ---------------------------- *)

InventoryPage_pageTitle(s) ==
    CASE s.page = "inventory" -> {El(".title", <<"Products">>, TRUE)}
      [] s.page = "cart" -> {El(".title", <<"Your", "Cart">>, TRUE)}
      [] s.page = "checkout-step-one" ->
             {El(".title", <<"Checkout:", "Your", "Information">>, TRUE)}
      [] OTHER -> {}

\* the badge is rendered only while the cart holds something
cartBadge(s) ==
    IF s.page \in ShopPages /\ s.cart # <<>>
    THEN {El(".shopping_cart_badge", toString(Len(s.cart)), TRUE)}
    ELSE {}

cartIcon(s) ==
    IF s.page \in ShopPages THEN {El(".shopping_cart_link", <<>>, TRUE)} ELSE {}

\* the open side menu covers the burger button
menuButton(s) ==
    IF s.page \in ShopPages
    THEN {El("#react-burger-menu-btn", <<"Open", "Menu">>, ~s.menuOpen)}
    ELSE {}

\* the link is in the DOM of every shop page, visible only in the open menu
logoutLink(s) ==
    IF s.page \in ShopPages
    THEN {El("#logout_sidebar_link", <<"Logout">>, s.menuOpen)}
    ELSE {}

inventoryItems(s) ==
    IF s.page = "inventory"
    THEN {El(<<".inventory_item", p>>, NameOf(p), TRUE) : p \in Catalog}
    ELSE {}

sortDropdown(s) ==
    IF s.page = "inventory"
    THEN {El(".product_sort_container", <<s.sort>>, TRUE)}
    ELSE {}

\* '#item_<productId>_title_link': the inventory links every product's title,
\* the cart page the titles of the products in the cart
getProductTitle(s, productId) ==
    LET shown == IF s.page = "inventory" THEN Catalog
                 ELSE IF s.page = "cart" THEN Range(s.cart)
                 ELSE {}
    IN  {El(<<"title_link", p>>, NameOf(p), TRUE) : p \in {q \in shown : ItemNumber(q) = productId}}

\* a product not in the cart shows "Add to cart", one in the cart shows "Remove"
getAddToCartButton(s, productId) ==
    IF s.page = "inventory" /\ productId \in Catalog /\ productId \notin Range(s.cart)
    THEN {El(<<"add-to-cart", productId>>, <<"Add", "to", "cart">>, TRUE)}
    ELSE {}

InventoryPage_getRemoveButton(s, productId) ==
    IF s.page \in {"inventory", "cart"} /\ productId \in Range(s.cart)
    THEN {El(<<"remove", productId>>, <<"Remove">>, TRUE)}
    ELSE {}

Without(seq, x) == SelectSeq(seq, LAMBDA y : y # x)

addProductToCart(s, productId) ==
    IF ~s.ok THEN s
    ELSE IF ~Actionable(getAddToCartButton(s, productId)) THEN Fail(s)
    ELSE [Acted(s) EXCEPT !.cart = Append(s.cart, productId)]

removeProductFromCart(s, productId) ==
    IF ~s.ok THEN s
    ELSE IF ~Actionable(InventoryPage_getRemoveButton(s, productId)) THEN Fail(s)
    ELSE [Acted(s) EXCEPT !.cart = Without(s.cart, productId)]

goToCart(s) ==
    IF ~s.ok THEN s
    ELSE IF ~Actionable(cartIcon(s)) THEN Fail(s)
    ELSE [Acted(s) EXCEPT !.page = "cart", !.sort = "az", !.menuOpen = FALSE]

openMenu(s) ==
    IF ~s.ok THEN s
    ELSE IF ~Actionable(menuButton(s)) THEN Fail(s)
    ELSE [Acted(s) EXCEPT !.menuOpen = TRUE]

\* the logout link drops the session and shows the login form; the cart,
\* kept in local storage, stays
\* (variant: clicks the logout link without opening the menu)
logout_menuClosed(s) ==
    IF ~s.ok THEN s
    ELSE IF ~Actionable(logoutLink(s)) THEN Fail(s)
    ELSE [Acted(s) EXCEPT !.page = "login", !.sort = "az", !.auth = FALSE, !.menuOpen = FALSE,
                   !.username = "", !.password = "", !.error = <<>>]

logout(s) ==
    LET s1 == openMenu(s)
    IN  IF ~s1.ok THEN s1
        ELSE IF ~Actionable(logoutLink(s1)) THEN Fail(s1)
        ELSE [Acted(s1) EXCEPT !.page = "login", !.sort = "az", !.auth = FALSE, !.menuOpen = FALSE,
                        !.username = "", !.password = "", !.error = <<>>]

\* .select(option) fails for a value the dropdown does not offer
sortProducts(s, option) ==
    IF ~s.ok THEN s
    ELSE IF ~Actionable(sortDropdown(s)) \/ option \notin SortOptions THEN Fail(s)
    ELSE [Acted(s) EXCEPT !.sort = option]

\* the title link opens the product's detail page
clickProductTitle(s, productId) ==
    IF ~s.ok THEN s
    ELSE IF ~Actionable(getProductTitle(s, productId)) THEN Fail(s)
    ELSE [Acted(s) EXCEPT !.page = "inventory-item", !.sort = "az", !.menuOpen = FALSE]

InventoryPage_shouldHaveTitle(s, title) ==
    Verify(s, ShouldContain(InventoryPage_pageTitle(s), title))

shouldShowCartBadge(s, count) ==
    Verify(s, ShouldContain(cartBadge(s), toString(count)))

\* (variant: asserts 'not.be.visible', which needs the element to exist)
shouldNotShowCartBadge_notVisible(s) ==
    Verify(s, cartBadge(s) # {} /\ \A e \in cartBadge(s) : ~e.visible)

shouldNotShowCartBadge(s) == Verify(s, ShouldNotExist(cartBadge(s)))

shouldHaveProductCount(s, count) == Verify(s, HaveLength(inventoryItems(s), count))

shouldShowProduct(s, productId) ==
    Verify(s, ShouldExist(getAddToCartButton(s, productId)))

(* ---------------------------- CartPage --------------------------------- *)

CartPage_pageTitle(s) == InventoryPage_pageTitle(s)

\* one '.cart_item' per product of the cart; a removed item leaves none
cartItems(s) ==
    IF s.page = "cart"
    THEN {El(<<".cart_item", s.cart[i]>>, NameOf(s.cart[i]), TRUE) : i \in DOMAIN s.cart}
    ELSE {}

checkoutButton(s) ==
    IF s.page = "cart" THEN {El("#checkout", <<"Checkout">>, TRUE)} ELSE {}

continueShoppingButton(s) ==
    IF s.page = "cart" THEN {El("#continue-shopping", <<"Continue", "Shopping">>, TRUE)}
    ELSE {}

\* cy.get('.cart_item').contains('.inventory_item_name', name).parent('.cart_item'):
\* the first cart item, in page order, whose name contains productName
getCartItem(s, productName) ==
    LET hits == {i \in DOMAIN s.cart : Contains(NameOf(s.cart[i]), productName)}
    IN  IF s.page = "cart" /\ hits # {}
        THEN LET first == CHOOSE i \in hits : \A j \in hits : i <= j
             IN  {El(<<".cart_item", s.cart[first]>>, NameOf(s.cart[first]), TRUE)}
        ELSE {}

CartPage_getRemoveButton(s, productName) ==
    {El(<<"remove", e.sel[2]>>, <<"Remove">>, TRUE) : e \in getCartItem(s, productName)}

removeItem(s, productName) ==
    IF ~s.ok THEN s
    ELSE IF ~Actionable(CartPage_getRemoveButton(s, productName)) THEN Fail(s)
    ELSE LET btn == CHOOSE e \in CartPage_getRemoveButton(s, productName) : TRUE
         IN  [Acted(s) EXCEPT !.cart = Without(s.cart, btn.sel[2])]

\* (variant: clicks the continue-shopping button)
proceedToCheckout_continue(s) ==
    IF ~s.ok THEN s
    ELSE IF ~Actionable(continueShoppingButton(s)) THEN Fail(s)
    ELSE [Acted(s) EXCEPT !.page = "inventory", !.sort = "az", !.menuOpen = FALSE]

proceedToCheckout(s) ==
    IF ~s.ok THEN s
    ELSE IF ~Actionable(checkoutButton(s)) THEN Fail(s)
    ELSE [Acted(s) EXCEPT !.page = "checkout-step-one", !.sort = "az", !.menuOpen = FALSE]

\* (variant: clicks the checkout button)
continueShopping_checkout(s) ==
    IF ~s.ok THEN s
    ELSE IF ~Actionable(checkoutButton(s)) THEN Fail(s)
    ELSE [Acted(s) EXCEPT !.page = "checkout-step-one", !.sort = "az", !.menuOpen = FALSE]

continueShopping(s) ==
    IF ~s.ok THEN s
    ELSE IF ~Actionable(continueShoppingButton(s)) THEN Fail(s)
    ELSE [Acted(s) EXCEPT !.page = "inventory", !.sort = "az", !.menuOpen = FALSE]

CartPage_shouldHaveTitle(s, title) ==
    Verify(s, ShouldContain(CartPage_pageTitle(s), title))

\* (variant: the two branches are swapped)
shouldHaveItemCount_swapped(s, count) ==
    IF count # 0
    THEN Verify(s, ShouldNotExist(cartItems(s)))
    ELSE Verify(s, HaveLength(cartItems(s), count))

shouldHaveItemCount(s, count) ==
    IF count = 0
    THEN Verify(s, ShouldNotExist(cartItems(s)))
    ELSE Verify(s, HaveLength(cartItems(s), count))

shouldContainProduct(s, productName) ==
    Verify(s, ShouldExist(getCartItem(s, productName)))

\* cy.get('.cart_item .inventory_item_name').should('not.contain', productName)
cartItemNames(s) ==
    IF s.page = "cart"
    THEN {El(<<".inventory_item_name", s.cart[i]>>, NameOf(s.cart[i]), TRUE) :
              i \in DOMAIN s.cart}
    ELSE {}

shouldNotContainProduct(s, productName) ==
    Verify(s, ShouldNotContain(cartItemNames(s), productName))

(* ---------------------------- custom commands -------------------------- *)

\* (variant: no visit() before the login)
loginAsStandardUser_noVisit(s) ==
    shouldRedirectToInventory(login(s, "standard_user", "secret_sauce"))

loginAsStandardUser(s) ==
    shouldRedirectToInventory(login(visit(s), "standard_user", "secret_sauce"))

loginAs(s, u, p) == login(visit(s), u, p)

addProductViaUI(s, productId) == addProductToCart(s, productId)

\* (variant: a failed add is caught and the loop goes on)
RECURSIVE forEachAdd_continue(_, _)
forEachAdd_continue(s, products) ==
    IF products = <<>> THEN s
    ELSE LET r == addProductToCart([s EXCEPT !.ok = TRUE], Head(products))
         IN  forEachAdd_continue([r EXCEPT !.ok = s.ok /\ r.ok], Tail(products))

\* products.forEach(productId => inventoryPage.addProductToCart(productId))
RECURSIVE forEachAdd(_, _)
forEachAdd(s, products) ==
    IF products = <<>> THEN s
    ELSE forEachAdd(addProductToCart(s, Head(products)), Tail(products))

\* the page objects commands.js imports
CommandsImports == {"LoginPage", "InventoryPage"}

\* cy.get('.cart_item .inventory_item_name').each($item => cartPage.removeItem($item.text()))
RECURSIVE eachRemoveItem(_, _)
eachRemoveItem(s, names) ==
    IF names = <<>> THEN s
    ELSE eachRemoveItem(removeItem(s, Head(names)), Tail(names))

\* 'new CartPage()' is evaluated before any command is queued; CartPage is not
\* imported, so the command throws a ReferenceError
clearCart(s) ==
    IF ~s.ok THEN s
    ELSE IF "CartPage" \notin CommandsImports THEN Fail(s)
    ELSE LET s1 == goToCart(s)
         IN  IF ~s1.ok THEN s1
             ELSE IF Cardinality(cartItems(s1)) > 0
                  THEN eachRemoveItem(s1, [i \in DOMAIN s1.cart |-> NameOf(s1.cart[i])])
                  ELSE s1

\* (variant: no login before the products are added)
setupCartWithProducts_noLogin(s, products) == forEachAdd(s, products)

setupCartWithProducts(s, products) == forEachAdd(loginAsStandardUser(s), products)

(* ---------------------------- the test specs --------------------------- *)

Call(op, args) == [op |-> op, args |-> args]

Backpack == "sauce-labs-backpack"
BikeLight == "sauce-labs-bike-light"
BoltTShirt == "sauce-labs-bolt-t-shirt"

LoginScenarios == {"L1", "L2", "L3", "L4", "L5"}
ShoppingScenarios == {"S1", "S2", "S3", "S4", "S5", "S6", "S7"}
\* generated scenarios: any calls, after the beforeEach of the login / shopping spec
FreeScenarios == {"freeLogin", "freeShopping"}
Scenarios == LoginScenarios \cup ShoppingScenarios \cup FreeScenarios

Script(scn) ==
    CASE scn = "L1" -> <<Call("login", <<"standard_user", "secret_sauce">>),
                         Call("shouldRedirectToInventory", <<>>),
                         Call("InventoryPage_shouldHaveTitle", <<<<"Products">>>>),
                         Call("shouldHaveProductCount", <<ProductCount>>)>>
      [] scn = "L2" -> <<Call("login", <<"invalid_user", "wrong_password">>),
                         Call("shouldShowError", <<MsgNoMatch>>)>>
      [] scn = "L3" -> <<Call("clickLogin", <<>>),
                         Call("shouldShowError", <<MsgUsernameRequired>>)>>
      [] scn = "L4" -> <<Call("login", <<"invalid_user", "wrong_password">>),
                         Call("shouldShowError", <<NoMessage>>),
                         Call("clearError", <<>>),
                         Call("errorMessageShouldNotExist", <<>>)>>
      [] scn = "L5" -> <<Call("login", <<"standard_user", "secret_sauce">>),
                         Call("shouldRedirectToInventory", <<>>),
                         Call("logout", <<>>),
                         Call("shouldBeOnLoginPage", <<>>)>>
      [] scn = "S1" -> <<Call("addProductToCart", <<Backpack>>),
                         Call("shouldShowCartBadge", <<1>>)>>
      [] scn = "S2" -> <<Call("addProductToCart", <<Backpack>>),
                         Call("addProductToCart", <<BikeLight>>),
                         Call("addProductToCart", <<BoltTShirt>>),
                         Call("shouldShowCartBadge", <<3>>)>>
      [] scn = "S3" -> <<Call("addProductToCart", <<Backpack>>),
                         Call("shouldShowCartBadge", <<1>>),
                         Call("removeProductFromCart", <<Backpack>>),
                         Call("shouldNotShowCartBadge", <<>>)>>
      [] scn = "S4" -> <<Call("addProductToCart", <<Backpack>>),
                         Call("addProductToCart", <<BikeLight>>),
                         Call("goToCart", <<>>),
                         Call("CartPage_shouldHaveTitle", <<<<"Your", "Cart">>>>),
                         Call("shouldHaveItemCount", <<2>>),
                         Call("shouldContainProduct", <<NameOf(Backpack)>>),
                         Call("shouldContainProduct", <<NameOf(BikeLight)>>)>>
      [] scn = "S5" -> <<Call("addProductToCart", <<Backpack>>),
                         Call("goToCart", <<>>),
                         Call("shouldHaveItemCount", <<1>>),
                         Call("removeItem", <<NameOf(Backpack)>>),
                         Call("shouldHaveItemCount", <<0>>)>>
      [] scn = "S6" -> <<Call("addProductToCart", <<Backpack>>),
                         Call("goToCart", <<>>),
                         Call("continueShopping", <<>>),
                         Call("InventoryPage_shouldHaveTitle", <<<<"Products">>>>),
                         Call("shouldShowCartBadge", <<1>>)>>
      [] scn = "S7" -> <<Call("addProductToCart", <<Backpack>>),
                         Call("addProductToCart", <<BikeLight>>),
                         Call("goToCart", <<>>),
                         Call("shouldHaveItemCount", <<2>>),
                         Call("shouldContainProduct", <<NameOf(Backpack)>>),
                         Call("continueShopping", <<>>),
                         Call("addProductToCart", <<BoltTShirt>>),
                         Call("goToCart", <<>>),
                         Call("shouldHaveItemCount", <<3>>),
                         Call("proceedToCheckout", <<>>),
                         Call("urlShouldInclude", <<"/checkout-step-one">>)>>
      [] OTHER -> <<>>

(* ---------------------------- the runner ------------------------------- *)

Cur == [ok |-> TRUE, page |-> page, auth |-> auth, cart |-> cart,
        username |-> username, password |-> password, error |-> error,
        menuOpen |-> menuOpen, sort |-> sort, acts |-> 0]

Commit(r) ==
    /\ page' = r.page
    /\ auth' = r.auth
    /\ cart' = r.cart
    /\ username' = r.username
    /\ password' = r.password
    /\ error' = r.error
    /\ menuOpen' = r.menuOpen
    /\ sort' = r.sort
    /\ interactions' = r.acts

\* test isolation: before each test the engine clears cookies and local
\* storage and leaves a blank page
FreshContext(s) ==
    [ok |-> TRUE, page |-> "blank", auth |-> FALSE, cart |-> <<>>,
     username |-> "", password |-> "", error |-> <<>>, menuOpen |-> FALSE,
     sort |-> "az", acts |-> 0]

beforeEach(scn, s) ==
    IF scn \in LoginScenarios \cup {"freeLogin"} THEN visit(s)
    ELSE loginAsStandardUser(s)

LoginPageOps == {"visit", "fillUsername", "fillPassword", "clickLogin", "clearError",
                 "login", "shouldShowError", "shouldRedirectToInventory",
                 "shouldBeOnLoginPage", "errorMessageShouldNotExist"}
InventoryPageOps == {"addProductToCart", "removeProductFromCart", "goToCart", "openMenu",
                     "logout", "sortProducts", "clickProductTitle", "InventoryPage_shouldHaveTitle", "shouldShowCartBadge",
                     "shouldNotShowCartBadge", "shouldHaveProductCount",
                     "shouldShowProduct"}
CartPageOps == {"removeItem", "proceedToCheckout", "continueShopping",
                "CartPage_shouldHaveTitle", "shouldHaveItemCount", "shouldContainProduct",
                "shouldNotContainProduct", "urlShouldInclude"}
CommandOps == {"loginAsStandardUser", "loginAs", "addProductViaUI", "clearCart",
               "setupCartWithProducts"}

\* a generated scenario calls what its spec file uses: the login spec the
\* LoginPage and InventoryPage objects, the shopping spec the InventoryPage and
\* CartPage objects and the custom commands
Alphabet(scn) ==
    IF scn = "freeLogin" THEN LoginPageOps \cup InventoryPageOps
    ELSE InventoryPageOps \cup CartPageOps \cup CommandOps

\* the object a test calls op on: the Page Object it made with 'new', or cy
Receiver(op) ==
    IF op \in LoginPageOps \ {"errorMessageShouldNotExist"} THEN "loginPage"
    ELSE IF op \in InventoryPageOps THEN "inventoryPage"
    ELSE IF op \in CartPageOps \ {"urlShouldInclude"} THEN "cartPage"
    ELSE "cy"

\* every Page Object method ends with 'return this'; a command yields the chain
Returns(self, op) == IF Receiver(op) = "cy" THEN "cy" ELSE self

NumCommands(h) == Cardinality({i \in DOMAIN h : h[i].op \in CommandOps})

\* the next call of the running scenario is op(args)
NextIs(op, args) ==
    /\ status = "running"
    /\ IF scenario \in FreeScenarios
       THEN /\ Len(hist) < MaxSteps
            /\ op \in Alphabet(scenario)
            /\ op \in CommandOps => NumCommands(hist) < MaxCommands
       ELSE /\ pc <= Len(Script(scenario))
            /\ Script(scenario)[pc].op = op
            /\ Script(scenario)[pc].args = args

\* a failed command fails the test and aborts the rest of its command queue
Outcome(r) == IF r.ok THEN "running" ELSE "failed"

\* an action call: r is the session after it
Act(op, args, r) ==
    /\ NextIs(op, args)
    /\ Commit(r)
    /\ status' = Outcome(r)
    /\ lastCall' = Call(op, args)
    /\ hist' = IF r.ok THEN Append(hist, Call(op, args)) ELSE hist
    /\ pc' = IF r.ok THEN pc + 1 ELSE pc
    /\ returned' = Returns(Receiver(op), op)
    /\ UNCHANGED <<scenario, prev>>

\* an assertion call; a generated scenario ends with its first assertion
Check(op, args, r) ==
    /\ NextIs(op, args)
    /\ Commit(r)
    /\ status' = IF r.ok /\ scenario \in FreeScenarios THEN "passed" ELSE Outcome(r)
    /\ lastCall' = Call(op, args)
    /\ pc' = IF r.ok THEN pc + 1 ELSE pc
    /\ returned' = Returns(Receiver(op), op)
    /\ UNCHANGED <<scenario, hist, prev>>

StartScenario ==
    \E scn \in Scenarios :
        LET r == beforeEach(scn, FreshContext(Cur))
        IN  /\ status # "running"
            /\ Commit(r)
            /\ scenario' = scn
            /\ pc' = 1
            /\ hist' = <<>>
            /\ lastCall' = Call("beforeEach", <<>>)
            /\ returned' = "none"
            /\ prev' = IF cart # <<>> THEN "filled" ELSE "empty"
            /\ status' = Outcome(r)

\* the test body has run to its end
Pass ==
    /\ status = "running"
    /\ scenario \notin FreeScenarios => pc > Len(Script(scenario))
    /\ status' = "passed"
    /\ UNCHANGED <<page, auth, cart, username, password, error, menuOpen, sort,
                   scenario, pc, hist, lastCall, prev, interactions, returned>>

Titles == {<<"Products">>, <<"Your", "Cart">>}
Messages == {NoMessage, MsgNoMatch, MsgUsernameRequired}
Counts == 0..3
UrlParts == {"/inventory", "/checkout-step-one"}
ProductIds == IF scenario \in FreeScenarios THEN FreeProductIds ELSE AllProductIds
ProductNames == NamesOf(ProductIds)
ProductLists == UNION {[1..n -> ProductIds] : n \in 0..MaxList}

Do_visit == Act("visit", <<>>, visit(Cur))
Do_fillUsername == \E u \in Usernames : Act("fillUsername", <<u>>, fillUsername(Cur, u))
Do_fillPassword == \E p \in Passwords : Act("fillPassword", <<p>>, fillPassword(Cur, p))
Do_clickLogin == Act("clickLogin", <<>>, clickLogin(Cur))
Do_clearError == Act("clearError", <<>>, clearError(Cur))
Do_login ==
    \E u \in Usernames, p \in Passwords : Act("login", <<u, p>>, login(Cur, u, p))
Do_shouldShowError ==
    \E m \in Messages : Check("shouldShowError", <<m>>, shouldShowError(Cur, m))
Do_shouldRedirectToInventory ==
    Check("shouldRedirectToInventory", <<>>, shouldRedirectToInventory(Cur))
Do_shouldBeOnLoginPage == Check("shouldBeOnLoginPage", <<>>, shouldBeOnLoginPage(Cur))
Do_errorMessageShouldNotExist ==
    Check("errorMessageShouldNotExist", <<>>, Verify(Cur, ShouldNotExist(errorMessage(Cur))))

Do_addProductToCart ==
    \E id \in ProductIds : Act("addProductToCart", <<id>>, addProductToCart(Cur, id))
Do_removeProductFromCart ==
    \E id \in ProductIds :
        Act("removeProductFromCart", <<id>>, removeProductFromCart(Cur, id))
Do_goToCart == Act("goToCart", <<>>, goToCart(Cur))
Do_openMenu == Act("openMenu", <<>>, openMenu(Cur))
Do_logout == Act("logout", <<>>, logout(Cur))
Do_sortProducts ==
    \E option \in {"za", "no-such-option"} :
        Act("sortProducts", <<option>>, sortProducts(Cur, option))
Do_clickProductTitle ==
    \E id \in {ItemNumber(Backpack), Backpack} :
        Act("clickProductTitle", <<id>>, clickProductTitle(Cur, id))
Do_InventoryPage_shouldHaveTitle ==
    \E t \in Titles :
        Check("InventoryPage_shouldHaveTitle", <<t>>, InventoryPage_shouldHaveTitle(Cur, t))
Do_shouldShowCartBadge ==
    \E n \in Counts : Check("shouldShowCartBadge", <<n>>, shouldShowCartBadge(Cur, n))
Do_shouldNotShowCartBadge ==
    Check("shouldNotShowCartBadge", <<>>, shouldNotShowCartBadge(Cur))
Do_shouldHaveProductCount ==
    \E n \in Counts \cup {ProductCount} :
        Check("shouldHaveProductCount", <<n>>, shouldHaveProductCount(Cur, n))
Do_shouldShowProduct ==
    \E id \in ProductIds : Check("shouldShowProduct", <<id>>, shouldShowProduct(Cur, id))

Do_removeItem ==
    \E name \in ProductNames : Act("removeItem", <<name>>, removeItem(Cur, name))
Do_proceedToCheckout == Act("proceedToCheckout", <<>>, proceedToCheckout(Cur))
Do_continueShopping == Act("continueShopping", <<>>, continueShopping(Cur))
Do_CartPage_shouldHaveTitle ==
    \E t \in Titles :
        Check("CartPage_shouldHaveTitle", <<t>>, CartPage_shouldHaveTitle(Cur, t))
Do_shouldHaveItemCount ==
    \E n \in Counts : Check("shouldHaveItemCount", <<n>>, shouldHaveItemCount(Cur, n))
Do_shouldContainProduct ==
    \E name \in ProductNames :
        Check("shouldContainProduct", <<name>>, shouldContainProduct(Cur, name))
Do_shouldNotContainProduct ==
    \E name \in ProductNames :
        Check("shouldNotContainProduct", <<name>>, shouldNotContainProduct(Cur, name))
Do_urlShouldInclude ==
    \E part \in UrlParts :
        Check("urlShouldInclude", <<part>>, Verify(Cur, Contains(url(Cur), <<part>>)))

Do_loginAsStandardUser == Act("loginAsStandardUser", <<>>, loginAsStandardUser(Cur))
Do_loginAs ==
    \E u \in Usernames, p \in Passwords : Act("loginAs", <<u, p>>, loginAs(Cur, u, p))
Do_addProductViaUI ==
    \E id \in ProductIds : Act("addProductViaUI", <<id>>, addProductViaUI(Cur, id))
Do_clearCart == Act("clearCart", <<>>, clearCart(Cur))
Do_setupCartWithProducts ==
    \E products \in ProductLists :
        Act("setupCartWithProducts", <<products>>, setupCartWithProducts(Cur, products))

Init ==
    /\ page = "blank"
    /\ auth = FALSE
    /\ cart = <<>>
    /\ username = ""
    /\ password = ""
    /\ error = <<>>
    /\ menuOpen = FALSE
    /\ sort = "az"
    /\ interactions = 0
    /\ returned = "none"
    /\ scenario = "none"
    /\ pc = 1
    /\ status = "idle"
    /\ hist = <<>>
    /\ lastCall = Call("none", <<>>)
    /\ prev = "none"

Next ==
    \/ StartScenario
    \/ Pass
    \/ Do_visit
    \/ Do_fillUsername
    \/ Do_fillPassword
    \/ Do_clickLogin
    \/ Do_clearError
    \/ Do_login
    \/ Do_shouldShowError
    \/ Do_shouldRedirectToInventory
    \/ Do_shouldBeOnLoginPage
    \/ Do_errorMessageShouldNotExist
    \/ Do_addProductToCart
    \/ Do_removeProductFromCart
    \/ Do_goToCart
    \/ Do_openMenu
    \/ Do_logout
    \/ Do_sortProducts
    \/ Do_clickProductTitle
    \/ Do_InventoryPage_shouldHaveTitle
    \/ Do_shouldShowCartBadge
    \/ Do_shouldNotShowCartBadge
    \/ Do_shouldHaveProductCount
    \/ Do_shouldShowProduct
    \/ Do_removeItem
    \/ Do_proceedToCheckout
    \/ Do_continueShopping
    \/ Do_CartPage_shouldHaveTitle
    \/ Do_shouldHaveItemCount
    \/ Do_shouldContainProduct
    \/ Do_shouldNotContainProduct
    \/ Do_urlShouldInclude
    \/ Do_loginAsStandardUser
    \/ Do_loginAs
    \/ Do_addProductViaUI
    \/ Do_clearCart
    \/ Do_setupCartWithProducts

Spec == Init /\ [][Next]_vars

TypeOK ==
    /\ page \in {"blank", "login"} \cup ShopPages
    /\ auth \in BOOLEAN
    /\ Range(cart) \subseteq Catalog
    /\ Cardinality(Range(cart)) = Len(cart)
    /\ username \in Usernames
    /\ password \in Passwords
    /\ menuOpen \in BOOLEAN
    /\ sort \in SortOptions
    /\ page # "inventory" => sort = "az"
    /\ interactions \in 0..(5 + ProductCount)
    /\ scenario \in Scenarios \cup {"none"}
    /\ status \in {"idle", "running", "passed", "failed"}
    /\ Len(hist) <= 11

(* ---------------------------- properties ------------------------------- *)

InLoginSpec == scenario \in LoginScenarios \cup {"freeLogin"}
InShoppingSpec == scenario \in ShoppingScenarios \cup {"freeShopping"}

Is(c, op, args) == c.op = op /\ c.args = args
AddsOnly(h) == \A i \in DOMAIN h : h[i].op = "addProductToCart"
AddedIds(h) == [i \in DOMAIN h |-> h[i].args[1]]
Prefix(h, n) == SubSeq(h, 1, n)
InvalidPair(u, p) == ~ValidAccount(u, p)

\* C1: in a freshly logged-in session with an empty cart, N >= 1 calls of
\* addProductToCart for distinct products all succeed and shouldShowCartBadge(N)
\* then succeeds; after one removeProductFromCart of one of them
\* shouldShowCartBadge(N-1) succeeds when N-1 > 0, and when N-1 = 0 there is no
\* badge element at all (shouldNotShowCartBadge succeeds, no badge reads "0").
C1_BadgeCountsProducts ==
    InShoppingSpec =>
        LET n == Len(hist)
        IN  /\ (status = "failed" /\ AddsOnly(hist) /\ lastCall.op = "addProductToCart")
                   => ~(lastCall.args[1] \in Catalog \ Range(AddedIds(hist)))
            /\ (status # "failed" /\ n >= 1 /\ AddsOnly(hist))
                   => shouldShowCartBadge(Cur, n).ok
            /\ (status = "failed" /\ n >= 1 /\ AddsOnly(hist)
                    /\ lastCall.op = "removeProductFromCart")
                   => lastCall.args[1] \notin Range(AddedIds(hist))
            /\ (status # "failed" /\ n >= 2 /\ AddsOnly(Prefix(hist, n - 1))
                    /\ hist[n].op = "removeProductFromCart")
                   => IF n - 2 > 0
                      THEN shouldShowCartBadge(Cur, n - 2).ok
                      ELSE /\ shouldNotShowCartBadge(Cur).ok
                           /\ cartBadge(Cur) = {}
                           /\ ~shouldShowCartBadge(Cur, 0).ok

C1_Witness ==
    /\ scenario = "freeShopping"
    /\ status # "failed"
    /\ Len(hist) = 3
    /\ AddsOnly(Prefix(hist, 2))
    /\ hist[3].op = "removeProductFromCart"
    /\ shouldShowCartBadge(Cur, 1).ok

\* C2: for any product P, from an empty cart, after addProductToCart(P) and
\* goToCart, shouldContainProduct(P) succeeds; after removeItem(P) both
\* shouldHaveItemCount(0) and shouldNotContainProduct(P) succeed.
C2_CartRoundTrip ==
    (InShoppingSpec /\ status # "failed") =>
        \A P \in NamedProducts :
            /\ (Len(hist) = 2 /\ Is(hist[1], "addProductToCart", <<P>>)
                    /\ hist[2].op = "goToCart")
                   => shouldContainProduct(Cur, NameOf(P)).ok
            /\ (Len(hist) = 3 /\ Is(hist[1], "addProductToCart", <<P>>)
                    /\ hist[2].op = "goToCart"
                    /\ Is(hist[3], "removeItem", <<NameOf(P)>>))
                   => /\ shouldHaveItemCount(Cur, 0).ok
                      /\ shouldNotContainProduct(Cur, NameOf(P)).ok

\* C3: after a non-empty set of products was added, goToCart followed by
\* continueShopping succeeds and returns to the inventory listing (title
\* 'Products') with the cart contents and the badge count as before goToCart.
C3_ContinueShoppingKeepsCart ==
    InShoppingSpec =>
        LET n == Len(hist)
        IN  /\ (status = "failed" /\ n >= 1 /\ AddsOnly(hist))
                   => lastCall.op # "goToCart"
            /\ (status # "failed" /\ n >= 1 /\ AddsOnly(hist))
                   => cart = AddedIds(hist)
            /\ (status = "failed" /\ n >= 2 /\ AddsOnly(Prefix(hist, n - 1))
                    /\ hist[n].op = "goToCart")
                   => lastCall.op # "continueShopping"
            /\ (status # "failed" /\ n >= 3 /\ AddsOnly(Prefix(hist, n - 2))
                    /\ hist[n - 1].op = "goToCart" /\ hist[n].op = "continueShopping")
                   => /\ page = "inventory"
                      /\ InventoryPage_shouldHaveTitle(Cur, <<"Products">>).ok
                      /\ cart = AddedIds(Prefix(hist, n - 2))
                      /\ shouldShowCartBadge(Cur, n - 2).ok

C3_Witness ==
    /\ scenario = "freeShopping"
    /\ status # "failed"
    /\ Len(hist) = 3
    /\ hist[1].op = "addProductToCart"
    /\ hist[2].op = "goToCart"
    /\ hist[3].op = "continueShopping"
    /\ page = "inventory"

\* C4: for every (username, password) pair of a valid account, login succeeds,
\* shouldRedirectToInventory then succeeds and shouldHaveProductCount(6) succeeds.
C4_ValidLoginReachesInventory ==
    InLoginSpec =>
        \A u \in Usernames, p \in Passwords :
            ValidAccount(u, p) =>
                /\ ~(status = "failed" /\ hist = <<>> /\ Is(lastCall, "login", <<u, p>>))
                /\ (status # "failed" /\ Len(hist) = 1 /\ Is(hist[1], "login", <<u, p>>))
                       => /\ shouldRedirectToInventory(Cur).ok
                          /\ shouldHaveProductCount(Cur, ProductCount).ok

C4_Witness ==
    /\ scenario = "freeLogin"
    /\ status = "running"
    /\ Len(hist) = 1
    /\ Is(hist[1], "login", <<"standard_user", "secret_sauce">>)
    /\ page = "inventory"

\* the message the login form shows for a pair that matches no account
ExpectedMessage(u, p) ==
    IF u = "" THEN MsgUsernameRequired
    ELSE IF p = "" THEN <<"Password", "is", "required">>
    ELSE MsgNoMatch

LoginShowsError(u, p) ==
    /\ ~(status = "failed" /\ hist = <<>> /\ Is(lastCall, "login", <<u, p>>))
    /\ (status # "failed" /\ Len(hist) = 1 /\ Is(hist[1], "login", <<u, p>>))
           => /\ shouldShowError(Cur, ExpectedMessage(u, p)).ok
              /\ ~auth
              /\ page = "login"

EmptyClickShowsError ==
    /\ ~(status = "failed" /\ hist = <<>> /\ lastCall.op = "clickLogin")
    /\ (status # "failed" /\ Len(hist) = 1 /\ hist[1].op = "clickLogin")
           => /\ shouldShowError(Cur, MsgUsernameRequired).ok
              /\ ~auth
              /\ page = "login"

\* C5 (as claimed): for every credential pair that matches no valid account,
\* the login attempt succeeds as a step and shouldShowError(message) then
\* succeeds with the expected message, the session staying unauthenticated on
\* the login page; likewise for clickLogin alone on the empty form.
C5_EveryInvalidPairShowsError ==
    InLoginSpec =>
        /\ \A u \in Usernames, p \in Passwords :
               InvalidPair(u, p) => LoginShowsError(u, p)
        /\ EmptyClickShowsError

\* C5 (amended): for every credential pair with both fields non-empty that
\* matches no valid account, login succeeds as a step and shouldShowError then
\* succeeds with 'Username and password do not match'; with both fields left
\* empty and only clickLogin invoked, shouldShowError('Username is required')
\* succeeds; in both cases the session stays unauthenticated on the login page.
C5_NonEmptyInvalidPairShowsError ==
    InLoginSpec =>
        /\ \A u \in Usernames, p \in Passwords :
               (InvalidPair(u, p) /\ u # "" /\ p # "") => LoginShowsError(u, p)
        /\ EmptyClickShowsError

C5_Witness ==
    /\ scenario = "freeLogin"
    /\ status = "running"
    /\ Len(hist) = 1
    /\ Is(hist[1], "login", <<"standard_user", "wrong_password">>)
    /\ error = ErrNoMatch
    /\ page = "login"

\* C6: the end-to-end scenario passes: after loginAsStandardUser, two products,
\* a visit to the cart and back, and a third product, goToCart makes
\* shouldHaveItemCount(3) succeed and proceedToCheckout leaves the session on a
\* URL containing '/checkout-step-one'.
C6_FullFlowPasses ==
    scenario = "S7" =>
        /\ status # "failed"
        /\ pc = 9 => (page = "cart" /\ shouldHaveItemCount(Cur, 3).ok)
        /\ pc >= 11 => Contains(url(Cur), <<"/checkout-step-one">>)
        /\ status = "passed" => (pc = 12 /\ page = "checkout-step-one" /\ Len(cart) = 3)

C6_Witness ==
    /\ scenario = "S7"
    /\ status = "passed"
    /\ page = "checkout-step-one"
    /\ cart = <<Backpack, BikeLight, BoltTShirt>>

\* C7: every scenario of the two specs has the same outcome in every execution
\* order: right after its beforeEach the session does not depend on the
\* scenarios run before (login spec: unauthenticated on the empty login form;
\* shopping spec: authenticated on the inventory; the cart empty in both), and
\* each scenario of the specs then passes.
C7_ScenariosIndependent ==
    /\ lastCall.op = "beforeEach" =>
           /\ status # "failed"
           /\ cart = <<>>
           /\ username = "" /\ password = "" /\ error = <<>> /\ ~menuOpen
           /\ InLoginSpec => (page = "login" /\ ~auth)
           /\ InShoppingSpec => (page = "inventory" /\ auth)
    /\ scenario \in LoginScenarios \cup ShoppingScenarios => status # "failed"

\* a scenario of the shopping spec has started after a scenario that left a
\* filled cart behind has ended
C7_Witness ==
    /\ scenario = "S1"
    /\ lastCall.op = "beforeEach"
    /\ status = "running"
    /\ prev = "filled"
    /\ cart = <<>>
    /\ page = "inventory"

\* the longest prefix of products that addProductToCart accepts one after the
\* other on the inventory page, starting from the cart c
RECURSIVE Addable(_, _)
Addable(c, products) ==
    IF products = <<>> THEN <<>>
    ELSE IF Head(products) \in Catalog \ Range(c)
         THEN <<Head(products)>> \o Addable(Append(c, Head(products)), Tail(products))
         ELSE <<>>

SessionVars == <<page, auth, cart, username, password, error, menuOpen, sort>>

\* C8: a scenario is strictly pass or fail: a step that fails ends the scenario
\* as failed at once (no second attempt), nothing is done on the page after the
\* failure (a failed setupCartWithProducts has added only the products before
\* the one that failed; a failed click, selection or assertion has changed
\* nothing), and the only step after a failure is the start of another
\* scenario, which is always possible.
C8_FailureHaltsScenario ==
    /\ [](status = "failed" => ENABLED StartScenario)
    /\ [][/\ status = "failed" => (lastCall'.op = "beforeEach" /\ pc' = 1)
          /\ status = "passed" => (lastCall'.op = "beforeEach" /\ pc' = 1)
          /\ (status = "running" /\ status' = "failed") =>
                 /\ scenario' = scenario /\ hist' = hist /\ pc' = pc
                 /\ lastCall'.op = "setupCartWithProducts" =>
                        /\ page' = "inventory"
                        /\ cart' = cart \o Addable(cart, lastCall'.args[1])
                 /\ lastCall'.op \notin {"setupCartWithProducts", "login", "loginAs",
                                         "loginAsStandardUser", "logout",
                                         "fillUsername", "fillPassword"}
                        => UNCHANGED SessionVars
         ]_vars

C8_Witness ==
    /\ status = "failed"
    /\ lastCall.op = "setupCartWithProducts"
    /\ Len(lastCall.args[1]) = 2
    /\ lastCall.args[1][1] = Backpack
    /\ lastCall.args[1][2] = "no-such-product"
    /\ cart = <<Backpack>>

\* C9 (as claimed): on success loginAsStandardUser leaves the session
\* authenticated on the inventory page from any prior session state, and
\* setupCartWithProducts(products) additionally leaves the cart containing
\* exactly those products, the badge showing their number.
C9_SetupLeavesExactlyProducts ==
    (status # "failed" /\ Len(hist) >= 1) =>
        LET c == hist[Len(hist)]
        IN  /\ c.op = "loginAsStandardUser" => (auth /\ page = "inventory")
            /\ c.op = "setupCartWithProducts" =>
                   /\ auth /\ page = "inventory"
                   /\ cart = c.args[1]
                   /\ IF c.args[1] = <<>> THEN shouldNotShowCartBadge(Cur).ok
                      ELSE shouldShowCartBadge(Cur, Len(c.args[1])).ok

DistinctValid(products) ==
    /\ Range(products) \subseteq Catalog
    /\ Cardinality(Range(products)) = Len(products)

\* C9 (amended): on success loginAsStandardUser leaves the session
\* authenticated on the inventory page from any prior session state, the cart
\* as it was; setupCartWithProducts(products), for any list of distinct valid
\* product ids none of which is in the cart already, succeeds and leaves the
\* session authenticated on the inventory page with the cart holding what it
\* held before followed by those products, the badge showing the number of
\* products in the cart; so the cart contains exactly those products when it
\* was empty before the command.
C9_SetupAppendsProducts ==
    [][LET c == lastCall'
       IN  (status = "running" /\ status' # "passed"
                /\ c.op \in {"loginAsStandardUser", "setupCartWithProducts"})
           => /\ c.op = "loginAsStandardUser" =>
                     (status' = "running" /\ auth' /\ page' = "inventory" /\ cart' = cart)
              /\ (c.op = "setupCartWithProducts" /\ DistinctValid(c.args[1])
                      /\ Range(c.args[1]) \cap Range(cart) = {}) =>
                     /\ status' = "running"
                     /\ auth' /\ page' = "inventory"
                     /\ cart' = cart \o c.args[1]
                     /\ cart = <<>> => cart' = c.args[1]
                     /\ IF cart' = <<>> THEN cartBadge(Cur') = {}
                        ELSE shouldShowCartBadge(Cur', Len(cart')).ok
              /\ (c.op = "setupCartWithProducts" /\ status' = "running") =>
                     cart' = cart \o c.args[1]
      ]_vars

C9_Witness ==
    /\ status = "running"
    /\ Len(hist) = 2
    /\ hist[1].op = "addProductToCart"
    /\ hist[2].op = "setupCartWithProducts"
    /\ Len(hist[2].args[1]) = 1
    /\ Len(cart) = 2
    /\ page = "inventory"

\* C10: after a successful login, logout (open the menu, click the logout
\* link) succeeds and leaves the session unauthenticated on the login page,
\* where shouldBeOnLoginPage succeeds.
C10_LogoutReturnsToLogin ==
    /\ (InLoginSpec /\ Len(hist) = 1 /\ hist[1].op = "login" /\ auth /\ status = "failed")
           => lastCall.op # "logout"
    /\ (InShoppingSpec /\ hist = <<>> /\ status = "failed") => lastCall.op # "logout"
    /\ (status # "failed" /\ Len(hist) >= 1 /\ hist[Len(hist)].op = "logout")
           => /\ ~auth
              /\ page = "login"
              /\ shouldBeOnLoginPage(Cur).ok

C10_Witness ==
    /\ scenario = "freeLogin"
    /\ status # "failed"
    /\ Len(hist) = 2
    /\ Is(hist[1], "login", <<"standard_user", "secret_sauce">>)
    /\ hist[2].op = "logout"
    /\ page = "login"
    /\ ~auth

\* C12: shouldHaveItemCount(count) branches on the expected count: for count = 0
\* it succeeds exactly when the page has no '.cart_item' element, for count > 0
\* exactly when the number of '.cart_item' elements equals count; so on the
\* cart page it succeeds for exactly one count, the number of items in the cart.
C12_ItemCountMatchesExactlyOne ==
    status # "idle" =>
        /\ shouldHaveItemCount(Cur, 0).ok <=> (cartItems(Cur) = {})
        /\ \A count \in 1..(ProductCount + 1) :
               shouldHaveItemCount(Cur, count).ok <=> (Cardinality(cartItems(Cur)) = count)
        /\ page = "cart" =>
               \A count \in 0..(ProductCount + 1) :
                   shouldHaveItemCount(Cur, count).ok <=> (count = Len(cart))

C12_Witness ==
    /\ page = "cart"
    /\ Len(cart) = 2
    /\ status = "passed"
    /\ scenario = "freeShopping"
    /\ Is(lastCall, "shouldHaveItemCount", <<2>>)

\* C13: from any authenticated session on the inventory page, whatever the
\* cart holds, the custom command clearCart completes without failure and
\* leaves the cart empty: no cart item and no cart badge.
C13_ClearCartEmptiesCart ==
    InShoppingSpec =>
        /\ (status = "failed" /\ AddsOnly(hist)) => lastCall.op # "clearCart"
        /\ (status # "failed" /\ Len(hist) >= 1 /\ hist[Len(hist)].op = "clearCart")
               => /\ cart = <<>>
                  /\ shouldHaveItemCount(Cur, 0).ok
                  /\ cartBadge(Cur) = {}

\* the Page Object action methods
ActionMethods ==
    {"fillUsername", "fillPassword", "clickLogin", "clearError", "addProductToCart",
     "removeProductFromCart", "goToCart", "openMenu", "logout", "sortProducts",
     "clickProductTitle", "removeItem", "proceedToCheckout", "continueShopping"}

Succeeded(op) == status = "running" /\ lastCall.op = op

====
